---- MODULE Spec2Model ----
(***************************************************************************)
(* A model of DustInstrumentation (src/src/instrumentation.ts): the two    *)
(* patched methods of the Dust client, createConversation and              *)
(* streamAgentAnswerEvents, the async generator _wrapEventStream that tags *)
(* the event stream, and the patch and unpatch hooks of init() that wrap   *)
(* and unwrap the two methods of DustAPI.prototype.                        *)
(*                                                                         *)
(* Conventions.  An optional JavaScript value is a set with at most one    *)
(* element: {} is undefined, {v} is the value v.  A span is a record       *)
(* holding what the OpenTelemetry SDK keeps of it: its attributes, status, *)
(* exception events, and the number of end() calls.  outputTokens is a     *)
(* multiple of 1/4 in the code (text.length / 4); the model keeps it as    *)
(* the number of quarters.                                                 *)
(***************************************************************************)
EXTENDS Naturals, Sequences, FiniteSets, TLC

VARIABLES
  moduleExports, \* the exports of the module the hooks are handed
  hooksOn,      \* the patch hook has run and the unpatch hook not since
  hookError,    \* the error the last hook raised, if any
  wrappedMethods, \* the methods of DustAPI.prototype that are wrapped now
  everPatched,  \* the patch hook has run at least once
  intercepted,  \* the call of the behaviour entered a patched function
  configAtCall, \* the options as they were when the patched function ran
  baseConfig,   \* what getConfig() returns: the options as the user gave them
  pc,           \* where the one call of the behaviour stands
  method,       \* which patched method was called
  callArgs,     \* the receiver and argument of the call
  spans,        \* every span the tracer has started, in order of creation
  origCalls,    \* the invocations of the original method: receiver and argument
  returned,     \* what the patched method returned synchronously
  underlying,   \* how the original call ended: thrown, rejected or resolved
  observed,     \* what the caller observes of the patched call
  streamConfig, \* the config handed to _wrapEventStream at the call
  gen,          \* the locals of _wrapEventStream
  produced,     \* the events the underlying event stream has produced
  received,     \* the events the consumer has been handed
  streamEnd,    \* how the underlying stream ended, and what the consumer saw
  other         \* a second streamAgentAnswerEvents call, made during the first

hookVars ==
  <<moduleExports, hooksOn, hookError, wrappedMethods, everPatched>>

vars == <<moduleExports, hooksOn, hookError, wrappedMethods, everPatched,
          intercepted, configAtCall, baseConfig, pc, method, callArgs, spans,
          origCalls, returned, underlying, observed, streamConfig, gen,
          produced, received, streamEnd, other>>

----------------------------------------------------------------------------
(* Bounds *)

\* The longest event sequence an underlying event stream produces.
MaxEvents == 2

----------------------------------------------------------------------------
(* Optional values and JavaScript truthiness *)

The(opt) == CHOOSE x \in opt : TRUE

\* v is neither undefined nor the empty string: `if (v)` for a string.
Truthy(opt) == opt # {} /\ opt # {""}

\* `v || dflt` for a string.
OrElse(opt, dflt) == IF Truthy(opt) THEN The(opt) ELSE dflt

\* `a?.f`: the field f of an optional record.
Field(opt, f) == IF opt = {} THEN {} ELSE (The(opt))[f]

----------------------------------------------------------------------------
(* constants.ts *)

SEMATTRS_GEN_AI_OPERATION_NAME == "gen_ai.operation.name"
SEMATTRS_GEN_AI_PROVIDER_NAME == "gen_ai.provider.name"
SEMATTRS_GEN_AI_AGENT_ID == "gen_ai.agent.id"
SEMATTRS_GEN_AI_CONVERSATION_ID == "gen_ai.conversation.id"
SEMATTRS_GEN_AI_RESPONSE_ID == "gen_ai.response.id"
SEMATTRS_GEN_AI_INPUT_MESSAGES == "gen_ai.input.messages"
SEMATTRS_GEN_AI_OUTPUT_MESSAGES == "gen_ai.output.messages"
SEMATTRS_GEN_AI_USAGE_OUTPUT_TOKENS == "gen_ai.usage.output_tokens"
SEMATTRS_GEN_AI_RESPONSE_FINISH_REASONS == "gen_ai.response.finish_reasons"
SEMATTRS_GEN_AI_TOOL_NAME == "gen_ai.tool.name"
SEMATTRS_GEN_AI_TOOL_CALL_ID == "gen_ai.tool.call.id"
SEMATTRS_GEN_AI_TOOL_CALL_ARGUMENTS == "gen_ai.tool.call.arguments"
SEMATTRS_GEN_AI_TOOL_CALL_RESULT == "gen_ai.tool.call.result"
SEMATTRS_GEN_AI_RETRIEVAL_DOCUMENTS == "gen_ai.retrieval.documents"
SEMATTRS_GEN_AI_AGENT_NAME == "gen_ai.agent.name"
SEMATTRS_GEN_AI_AGENT_DESCRIPTION == "gen_ai.agent.description"
SEMATTRS_DUST_AGENT_VERSION == "dust.agent.version"
SEMATTRS_DUST_AGENT_VERSION_CREATED_AT == "dust.agent.version_created_at"
SEMATTRS_ENDUSER_ID == "enduser.id"
SEMATTRS_ERROR_TYPE == "error.type"

GEN_AI_OPERATION_INVOKE_AGENT == "invoke_agent"
GEN_AI_OPERATION_EXECUTE_TOOL == "execute_tool"
GEN_AI_PROVIDER_DUST == "dust"

DUST_EVENT_GENERATION_TOKENS == "generation_tokens"
DUST_EVENT_AGENT_ACTION_SUCCESS == "agent_action_success"
DUST_EVENT_AGENT_MESSAGE_SUCCESS == "agent_message_success"
DUST_EVENT_AGENT_ERROR == "agent_error"
DUST_EVENT_USER_MESSAGE_ERROR == "user_message_error"

AttrKeys ==
  { SEMATTRS_GEN_AI_OPERATION_NAME, SEMATTRS_GEN_AI_PROVIDER_NAME,
    SEMATTRS_GEN_AI_AGENT_ID, SEMATTRS_GEN_AI_CONVERSATION_ID,
    SEMATTRS_GEN_AI_RESPONSE_ID, SEMATTRS_GEN_AI_INPUT_MESSAGES,
    SEMATTRS_GEN_AI_OUTPUT_MESSAGES, SEMATTRS_GEN_AI_USAGE_OUTPUT_TOKENS,
    SEMATTRS_GEN_AI_RESPONSE_FINISH_REASONS, SEMATTRS_GEN_AI_TOOL_NAME,
    SEMATTRS_GEN_AI_TOOL_CALL_ID, SEMATTRS_GEN_AI_TOOL_CALL_ARGUMENTS,
    SEMATTRS_GEN_AI_TOOL_CALL_RESULT, SEMATTRS_GEN_AI_RETRIEVAL_DOCUMENTS,
    SEMATTRS_GEN_AI_AGENT_NAME, SEMATTRS_GEN_AI_AGENT_DESCRIPTION,
    SEMATTRS_DUST_AGENT_VERSION, SEMATTRS_DUST_AGENT_VERSION_CREATED_AT,
    SEMATTRS_ENDUSER_ID, SEMATTRS_ERROR_TYPE }

----------------------------------------------------------------------------
(* The span API of the tracer, as the instrumentation uses it *)

\* tracer.startSpan(name, {kind: CLIENT, attributes}, parentContext): the span
\* is recording, unset status, not ended.  parent is the index in spans of
\* the span the context carries, 0 for the caller's active context.
startSpan(name, attributes, parent) ==
  [ name |-> name, kind |-> "CLIENT", parent |-> parent,
    attrs |-> [k \in AttrKeys |->
                 IF k \in DOMAIN attributes THEN {attributes[k]} ELSE {}],
    status |-> [code |-> "UNSET", message |-> {}],
    exceptions |-> <<>>, endCalls |-> 0, lateOps |-> 0 ]

isEnded(span) == span.endCalls > 0

\* span.setAttribute(key, value) with an optional value: an undefined
\* value, and any value once the span has ended, leaves the attributes alone.
setAttribute(span, key, value) ==
  IF isEnded(span) THEN [span EXCEPT !.lateOps = @ + 1]
  ELSE IF value = {} THEN span
  ELSE [span EXCEPT !.attrs[key] = value]

\* span.setStatus({code: ERROR, message})
setStatus(span, code, message) ==
  IF isEnded(span) THEN [span EXCEPT !.lateOps = @ + 1]
  ELSE [span EXCEPT !.status = [code |-> code, message |-> message]]

\* span.recordException(error)
recordException(span, error) ==
  IF isEnded(span) THEN [span EXCEPT !.lateOps = @ + 1]
  ELSE [span EXCEPT !.exceptions = Append(@, error)]

\* span.end()
end(span) == [span EXCEPT !.endCalls = @ + 1]

\* JSON.stringify(value): an injective encoding of the value as a string,
\* kept as the value under a tag that tells it from the value itself.
JSONstringify(value) == [json |-> value]

----------------------------------------------------------------------------
(* The configuration *)

\* The options a user may give: each of them present or omitted.
BaseConfig(enabled, captureMessageContent, captureSystemInstructions) ==
  [ enabled |-> enabled, captureMessageContent |-> captureMessageContent,
    captureSystemInstructions |-> captureSystemInstructions ]

BaseConfigs ==
  { BaseConfig({}, {}, {}),
    BaseConfig({TRUE}, {TRUE}, {TRUE}),
    BaseConfig({TRUE}, {FALSE}, {}),
    BaseConfig({FALSE}, {TRUE}, {FALSE}),
    BaseConfig({FALSE}, {}, {}) }

\* `x ?? dflt`
Nullish(opt, dflt) == IF opt = {} THEN dflt ELSE The(opt)

\* A _getConfig that does not read `enabled`.
_getConfig_alwaysEnabled(base) ==
  [ enabled |-> TRUE,
    captureMessageContent |-> Nullish(base.captureMessageContent, FALSE),
    captureSystemInstructions |-> Nullish(base.captureSystemInstructions, FALSE) ]

\* A _getConfig whose captureMessageContent defaults to true.
_getConfig_captureByDefault(base) ==
  [ enabled |-> Nullish(base.enabled, TRUE),
    captureMessageContent |-> Nullish(base.captureMessageContent, TRUE),
    captureSystemInstructions |-> Nullish(base.captureSystemInstructions, FALSE) ]

_getConfig(base) ==
  [ enabled |-> Nullish(base.enabled, TRUE),
    captureMessageContent |-> Nullish(base.captureMessageContent, FALSE),
    captureSystemInstructions |-> Nullish(base.captureSystemInstructions, FALSE) ]

----------------------------------------------------------------------------
(* Errors and the outcomes of the original methods *)

\* The errors an original method or an event stream raises.  error.name is
\* "Error" for a plain Error and may be empty for a custom one.
Errors ==
  { [name |-> "Error", message |-> "API Error"],
    [name |-> "",      message |-> "boom"] }

\* What the runtime raises when a handler reads a property of undefined.
TypeError == [name |-> "TypeError", message |-> "Cannot read properties of undefined"]

\* The objects a method is called on: an instance of DustAPI, and a plain
\* object that has methods of the same names.
Receivers == {"dustAPI", "mockDustAPI"}

NoOutcome == [kind |-> "none", result |-> {}, error |-> {}]
Threw(e) == [kind |-> "threw", result |-> {}, error |-> {e}]
Rejected(e) == [kind |-> "rejected", result |-> {}, error |-> {e}]
Resolved(r) == [kind |-> "resolved", result |-> r, error |-> {}]

\* The error of a result: result.error, with its optional message and type.
ResultErrors ==
  { {}, {[message |-> {}, type |-> {}]},
    {[message |-> {"Conversation not found"}, type |-> {"not_found"}]} }

----------------------------------------------------------------------------
(* init(): the patch and unpatch hooks *)

Methods == {"createConversation", "streamAgentAnswerEvents"}

\* The exports of the module the hooks are handed: with or without DustAPI.
ModuleExports == { [DustAPI |-> {"DustAPI"}], [DustAPI |-> {}] }

\* What a hook did: the methods wrapped after it, and the error it raised.
Hooked(wrapped, error) == [wrapped |-> wrapped, error |-> error]

\* The patch hook: exports without DustAPI are returned as they are, an
\* error logged; otherwise both methods of DustAPI.prototype are wrapped.
patch(exports, wrapped) ==
  IF exports.DustAPI = {} THEN Hooked(wrapped, {})
  ELSE Hooked(wrapped \cup {"createConversation", "streamAgentAnswerEvents"}, {})

\* An unpatch hook that unwraps createConversation alone.
unpatch_createConversationOnly(exports, wrapped) ==
  IF exports.DustAPI = {} THEN Hooked(wrapped, {TypeError})
  ELSE Hooked(wrapped \ {"createConversation"}, {})

\* The unpatch hook: both methods are unwrapped.  It reads
\* moduleExports.DustAPI.prototype with no test of DustAPI, which throws
\* when the exports have none.
unpatch(exports, wrapped) ==
  IF exports.DustAPI = {} THEN Hooked(wrapped, {TypeError})
  ELSE Hooked(wrapped \ {"createConversation", "streamAgentAnswerEvents"}, {})

\* A wrapper that every object with a method of that name reaches.
dispatch_anyReceiver(this, name, wrapped) ==
  IF name \in wrapped THEN "patched" ELSE "original"

\* Which function a call of the method `name` on `this` enters: the wrapper
\* sits on DustAPI.prototype, so only its instances reach it.
dispatch(this, name, wrapped) ==
  IF this = "dustAPI" /\ name \in wrapped THEN "patched" ELSE "original"

----------------------------------------------------------------------------
(* createConversation: its arguments and results *)

Mentions ==
  { {}, {<<>>}, {<<[configurationId |-> {}]>>},
    {<<[configurationId |-> {"agent-1"}]>>},
    {<<[configurationId |-> {"agent-2"}], [configurationId |-> {"agent-1"}]>>},
    {<<[configurationId |-> {}], [configurationId |-> {"agent-1"}]>>} }

Contexts == { {}, {[email |-> {}]}, {[email |-> {"user@example.com"}]} }

Contents == { {}, {""}, {"Hello, agent!"} }

CreateArgs ==
  { [message |-> {}] } \cup
  { [message |-> {[content |-> c, mentions |-> m, context |-> x]}] :
      c \in Contents, m \in Mentions, x \in Contexts }

Ids(S) == { {} } \cup { {[sId |-> s]} : s \in S }

\* What the original createConversation resolves to: undefined, or a result
\* with or without isErr, error and value.
CreateResults ==
  { {} } \cup
  { {[isErr |-> {TRUE}, error |-> e, value |-> {}]} : e \in ResultErrors } \cup
  { {[isErr |-> {TRUE}, error |-> {[message |-> {}, type |-> {}]},
      value |-> {[conversation |-> {[sId |-> {"conv-123"}]},
                  message |-> {[sId |-> {"msg-456"}]}]}]} } \cup
  { {[isErr |-> i, error |-> {}, value |-> v]} :
      i \in { {}, {FALSE} },
      v \in { {} } \cup
            { {[conversation |-> c, message |-> m]} :
                c \in Ids({{}, {"conv-123"}}), m \in Ids({{}, {"msg-456"}}) } }

\* `result.isErr && result.isErr()`
isErr(result) == result.isErr = {TRUE}

\* An agent name taken from the last mention.
agentNameOf_lastMention(args) ==
  LET mentions == Field(args.message, "mentions") IN
  IF mentions = {} \/ Len(The(mentions)) = 0 THEN "unknown"
  ELSE OrElse((The(mentions))[Len(The(mentions))].configurationId, "unknown")

\* args.message?.mentions?.[0]?.configurationId || 'unknown'
agentNameOf(args) ==
  LET mentions == Field(args.message, "mentions") IN
  IF mentions = {} \/ Len(The(mentions)) = 0 THEN "unknown"
  ELSE OrElse((The(mentions))[1].configurationId, "unknown")

\* patchedCreateConversation up to the call of the original: the span as
\* started, with the end-user id and, when content is captured, the message.
createConversationSpan(config, args) ==
  LET agentName == agentNameOf(args)
      s0 == startSpan("invoke_agent " \o agentName,
              (SEMATTRS_GEN_AI_OPERATION_NAME :> GEN_AI_OPERATION_INVOKE_AGENT) @@
              (SEMATTRS_GEN_AI_PROVIDER_NAME :> GEN_AI_PROVIDER_DUST) @@
              (SEMATTRS_GEN_AI_AGENT_ID :> agentName), 0)
      email == Field(Field(args.message, "context"), "email")
      s1 == IF Truthy(email) THEN setAttribute(s0, SEMATTRS_ENDUSER_ID, email)
            ELSE s0
      content == Field(args.message, "content")
  IN IF config.captureMessageContent /\ Truthy(content)
     THEN setAttribute(s1, SEMATTRS_GEN_AI_INPUT_MESSAGES,
            {JSONstringify(<<[role |-> "user", content |-> The(content)]>>)})
     ELSE s1

\* An error branch that writes the error message where the type belongs.
resultError_messageAsType(span, result) ==
  setAttribute(
    setStatus(span, "ERROR", {OrElse(Field(result.error, "message"), "Unknown error")}),
    SEMATTRS_ERROR_TYPE, {OrElse(Field(result.error, "message"), "unknown")})

\* The error branch of both .then handlers: error status with the result's
\* error message, error.type with its type.
resultError(span, result) ==
  setAttribute(
    setStatus(span, "ERROR", {OrElse(Field(result.error, "message"), "Unknown error")}),
    SEMATTRS_ERROR_TYPE, {OrElse(Field(result.error, "type"), "unknown")})

\* A .then handler that ends the span only in its error branch.
createConversationThen_endOnErrorOnly(span, result) ==
  IF isErr(result) THEN end(resultError(span, result))
  ELSE IF result.value # {}
  THEN LET value == The(result.value)
           s1 == setAttribute(span, SEMATTRS_GEN_AI_CONVERSATION_ID,
                   Field(value.conversation, "sId"))
       IN IF Truthy(Field(value.message, "sId"))
          THEN setAttribute(s1, SEMATTRS_GEN_AI_RESPONSE_ID,
                 Field(value.message, "sId"))
          ELSE s1
  ELSE span

\* The .then handler of patchedCreateConversation on a result object.
createConversationThen(span, result) ==
  IF isErr(result) THEN end(resultError(span, result))
  ELSE IF result.value # {}
  THEN LET value == The(result.value)
           s1 == setAttribute(span, SEMATTRS_GEN_AI_CONVERSATION_ID,
                   Field(value.conversation, "sId"))
           s2 == IF Truthy(Field(value.message, "sId"))
                 THEN setAttribute(s1, SEMATTRS_GEN_AI_RESPONSE_ID,
                        Field(value.message, "sId"))
                 ELSE s1
       IN end(s2)
  ELSE end(span)

\* A .catch handler that ends the span before it records the error.
catchError_endFirst(span, error) ==
  setAttribute(
    setStatus(recordException(end(span), error), "ERROR", {error.message}),
    SEMATTRS_ERROR_TYPE, {OrElse({error.name}, "Error")})

\* The .catch handler of both patched methods.
catchError(span, error) ==
  end(setAttribute(
        setStatus(recordException(span, error), "ERROR", {error.message}),
        SEMATTRS_ERROR_TYPE, {OrElse({error.name}, "Error")}))

----------------------------------------------------------------------------
(* streamAgentAnswerEvents: its arguments, results and events *)

StreamArgs ==
  { [conversation |-> {}],
    [conversation |-> {[sId |-> "conv-1"]}],
    [conversation |-> {[sId |-> "conv-2"]}] }

\* What the original streamAgentAnswerEvents resolves to: undefined, an
\* error result, a result without a value, or a result with an event stream.
StreamResults ==
  { {} } \cup
  { {[isErr |-> {TRUE}, error |-> e, value |-> {}]} : e \in ResultErrors } \cup
  { {[isErr |-> {TRUE}, error |-> {[message |-> {}, type |-> {}]},
      value |-> {[eventStream |-> "original"]}]} } \cup
  { {[isErr |-> i, error |-> {}, value |-> v]} :
      i \in { {}, {FALSE} }, v \in { {}, {[eventStream |-> "original"]} } }

\* A .then handler that returns a fresh object around the wrapping stream:
\* the result's methods and its other fields are lost.
wrapResult_freshObject(result) ==
  [ isErr |-> {}, error |-> {}, value |-> {[eventStream |-> "wrapped"]} ]

\* result.value.eventStream = wrappedEventStream; return result
wrapResult(result) ==
  [result EXCEPT !.value = {[The(@) EXCEPT !.eventStream = "wrapped"]}]

\* An AgentEvent (types.ts), every optional field omitted.
Event(type) ==
  [ type |-> type, text |-> {}, action |-> {}, error |-> {},
    configurationId |-> {}, messageId |-> {}, message |-> {} ]

TokenEvents ==
  { [Event(DUST_EVENT_GENERATION_TOKENS) EXCEPT !.text = t] :
      t \in { {}, {""}, {"Hi"}, {"Hello"} } }

Doc(id) == [documentId |-> id]
Item(type, documents) == [type |-> type, documents |-> documents]
ArrayOutput(items) == {[isArray |-> TRUE, items |-> items]}
ObjectOutput == {[isArray |-> FALSE, items |-> <<>>]}

Action(name, callId, sId, params, output) ==
  [ functionCallName |-> name, functionCallId |-> callId, sId |-> sId,
    params |-> params, output |-> output ]

Actions ==
  { Action({"search"}, {"call-1"}, {"act-1"}, {[query |-> "test"]}, {}),
    Action({}, {}, {"act-2"}, {}, ObjectOutput),
    Action({"search"}, {}, {}, {[query |-> "test"]},
           ArrayOutput(<<Item("retrieval_documents", {<<Doc("d1"), Doc("d2")>>})>>)),
    Action({"fetch"}, {"call-2"}, {}, {},
           ArrayOutput(<<Item("resource", {}), Item("retrieval_documents", {})>>)),
    Action({"fetch"}, {"call-3"}, {"act-3"}, {[query |-> "test"]}, ArrayOutput(<<>>)),
    Action({"search"}, {"call-4"}, {}, {},
           ArrayOutput(<<Item("text", {}), Item("retrieval_documents", {<<Doc("d3")>>})>>)) }

ActionEvents ==
  { [Event(DUST_EVENT_AGENT_ACTION_SUCCESS) EXCEPT !.action = a] :
      a \in { {} } \cup { {x} : x \in Actions } }

Configuration(name, description, version, versionCreatedAt) ==
  [ name |-> name, description |-> description, version |-> version,
    versionCreatedAt |-> versionCreatedAt ]

SuccessEvents ==
  { Event(DUST_EVENT_AGENT_MESSAGE_SUCCESS),
    [Event(DUST_EVENT_AGENT_MESSAGE_SUCCESS) EXCEPT
       !.configurationId = {"agent-1"}, !.messageId = {"msg-789"},
       !.message = {[configuration |-> {}]}],
    [Event(DUST_EVENT_AGENT_MESSAGE_SUCCESS) EXCEPT
       !.messageId = {"msg-789"},
       !.message = {[configuration |->
                       {Configuration({"Helper"}, {"Helps"}, {0}, {"2025-01-01"})}]}],
    [Event(DUST_EVENT_AGENT_MESSAGE_SUCCESS) EXCEPT
       !.configurationId = {"agent-1"},
       !.message = {[configuration |-> {Configuration({"Helper"}, {}, {}, {})}]}] }

ErrorEvents ==
  { [Event(DUST_EVENT_AGENT_ERROR) EXCEPT
       !.error = {[code |-> {"TIMEOUT"}, message |-> {"Request timed out"}]}],
    Event(DUST_EVENT_AGENT_ERROR),
    [Event(DUST_EVENT_USER_MESSAGE_ERROR) EXCEPT
       !.error = {[code |-> {}, message |-> {"Bad message"}]}] }

\* An event of a type the switch has no case for.
OtherEvents == { Event("conversation_title") }

Events == TokenEvents \cup ActionEvents \cup SuccessEvents \cup ErrorEvents
            \cup OtherEvents

----------------------------------------------------------------------------
(* _wrapEventStream: what one event does to the spans and the locals *)

\* The state the generator works on: the spans of the tracer, the locals of
\* the generator, the index in spans of the parent span it was handed
\* (self), and the span of the context that is active when the consumer
\* pulls the event (0 for none).
St(sp, g, self, active) ==
  [spans |-> sp, gen |-> g, self |-> self, active |-> active]

\* A parent context that is the active context as it is.
setSpan_keepActive(active, span) == active

\* trace.setSpan(context.active(), span): the span the new context carries.
setSpan(active, span) == span

\* A token case that rounds each event's count up: ceil(text.length / 4).
onGenerationTokens_ceil(st, config, event) ==
  IF Truthy(event.text)
  THEN [st EXCEPT
          !.gen.outputTokens = @ + 4 * ((Len(The(event.text)) + 3) \div 4),
          !.gen.outputContent =
             IF config.captureMessageContent THEN @ \o The(event.text) ELSE @]
  ELSE st

\* case DUST_EVENT_GENERATION_TOKENS
onGenerationTokens(st, config, event) ==
  IF Truthy(event.text)
  THEN [st EXCEPT
          !.gen.outputTokens = @ + Len(The(event.text)),
          !.gen.outputContent =
             IF config.captureMessageContent THEN @ \o The(event.text) ELSE @]
  ELSE st

\* A loop that pushes a retrieval_documents item itself, not its documents.
RECURSIVE collectDocuments_noSpread(_, _)
collectDocuments_noSpread(items, acc) ==
  IF items = <<>> THEN acc
  ELSE LET item == Head(items) IN
       collectDocuments_noSpread(Tail(items),
         IF item.type = "retrieval_documents" /\ item.documents # {}
         THEN Append(acc, item)
         ELSE IF item.type = "resource" THEN Append(acc, item)
         ELSE acc)

\* The for loop over event.action.output: the documents of each
\* retrieval_documents item, and each resource item itself.
RECURSIVE collectDocuments(_, _)
collectDocuments(items, acc) ==
  IF items = <<>> THEN acc
  ELSE LET item == Head(items) IN
       collectDocuments(Tail(items),
         IF item.type = "retrieval_documents" /\ item.documents # {}
         THEN acc \o The(item.documents)
         ELSE IF item.type = "resource" THEN Append(acc, item)
         ELSE acc)

\* The tool span of an action, from startSpan to the last setAttribute.
toolSpanOf(parent, config, action) ==
  LET t0 == startSpan(GEN_AI_OPERATION_EXECUTE_TOOL,
              (SEMATTRS_GEN_AI_OPERATION_NAME :> GEN_AI_OPERATION_EXECUTE_TOOL) @@
              (SEMATTRS_GEN_AI_PROVIDER_NAME :> GEN_AI_PROVIDER_DUST) @@
              (SEMATTRS_GEN_AI_TOOL_NAME :> OrElse(action.functionCallName, "unknown")) @@
              (SEMATTRS_GEN_AI_TOOL_CALL_ID :>
                 IF Truthy(action.functionCallId) THEN The(action.functionCallId)
                 ELSE OrElse(action.sId, "unknown")), parent)
      t1 == IF config.captureMessageContent /\ action.params # {}
            THEN setAttribute(t0, SEMATTRS_GEN_AI_TOOL_CALL_ARGUMENTS,
                   {JSONstringify(The(action.params))})
            ELSE t0
  IN IF config.captureMessageContent /\ action.output # {}
     THEN setAttribute(t1, SEMATTRS_GEN_AI_TOOL_CALL_RESULT,
            {JSONstringify(The(action.output))})
     ELSE t1

\* An action case that never ends the tool span.
onAgentActionSuccess_noEnd(st, config, event) ==
  IF event.action = {} THEN st
  ELSE LET action == The(event.action)
           documents ==
             IF action.output # {} /\ (The(action.output)).isArray
             THEN collectDocuments((The(action.output)).items,
                                   st.gen.retrievalDocuments)
             ELSE st.gen.retrievalDocuments
       IN [st EXCEPT
             !.spans = Append(@, toolSpanOf(setSpan(st.active, st.self),
                                            config, action)),
             !.gen.retrievalDocuments = documents]

\* case DUST_EVENT_AGENT_ACTION_SUCCESS
onAgentActionSuccess(st, config, event) ==
  IF event.action = {} THEN st
  ELSE LET action == The(event.action)
           documents ==
             IF action.output # {} /\ (The(action.output)).isArray
             THEN collectDocuments((The(action.output)).items,
                                   st.gen.retrievalDocuments)
             ELSE st.gen.retrievalDocuments
       IN [st EXCEPT
             !.spans = Append(@, end(toolSpanOf(setSpan(st.active, st.self),
                                                config, action))),
             !.gen.retrievalDocuments = documents]

\* A success case that tests the version like the other fields, `if
\* (config.version)`: version 0 is dropped.
onAgentMessageSuccess_versionTruthy(st, event) ==
  LET s0 == st.spans[st.self]
      s1 == IF Truthy(event.configurationId)
            THEN setAttribute(s0, SEMATTRS_GEN_AI_AGENT_ID, event.configurationId)
            ELSE s0
      s2 == IF Truthy(event.messageId)
            THEN setAttribute(s1, SEMATTRS_GEN_AI_RESPONSE_ID, event.messageId)
            ELSE s1
      configuration == Field(event.message, "configuration")
      s3 == IF configuration = {} THEN s2
            ELSE LET c == The(configuration)
                     a == IF Truthy(c.name)
                          THEN setAttribute(s2, SEMATTRS_GEN_AI_AGENT_NAME, c.name)
                          ELSE s2
                     b == IF Truthy(c.description)
                          THEN setAttribute(a, SEMATTRS_GEN_AI_AGENT_DESCRIPTION,
                                 c.description)
                          ELSE a
                     d == IF c.version # {} /\ c.version # {0}
                          THEN setAttribute(b, SEMATTRS_DUST_AGENT_VERSION, c.version)
                          ELSE b
                 IN IF Truthy(c.versionCreatedAt)
                    THEN setAttribute(d, SEMATTRS_DUST_AGENT_VERSION_CREATED_AT,
                           c.versionCreatedAt)
                    ELSE d
  IN [st EXCEPT !.spans[st.self] = s3, !.gen.finishReason = {"stop"}]

\* case DUST_EVENT_AGENT_MESSAGE_SUCCESS
onAgentMessageSuccess(st, event) ==
  LET s0 == st.spans[st.self]
      s1 == IF Truthy(event.configurationId)
            THEN setAttribute(s0, SEMATTRS_GEN_AI_AGENT_ID, event.configurationId)
            ELSE s0
      s2 == IF Truthy(event.messageId)
            THEN setAttribute(s1, SEMATTRS_GEN_AI_RESPONSE_ID, event.messageId)
            ELSE s1
      configuration == Field(event.message, "configuration")
      s3 == IF configuration = {} THEN s2
            ELSE LET c == The(configuration)
                     a == IF Truthy(c.name)
                          THEN setAttribute(s2, SEMATTRS_GEN_AI_AGENT_NAME, c.name)
                          ELSE s2
                     b == IF Truthy(c.description)
                          THEN setAttribute(a, SEMATTRS_GEN_AI_AGENT_DESCRIPTION,
                                 c.description)
                          ELSE a
                     d == IF c.version # {}
                          THEN setAttribute(b, SEMATTRS_DUST_AGENT_VERSION, c.version)
                          ELSE b
                 IN IF Truthy(c.versionCreatedAt)
                    THEN setAttribute(d, SEMATTRS_DUST_AGENT_VERSION_CREATED_AT,
                           c.versionCreatedAt)
                    ELSE d
  IN [st EXCEPT !.spans[st.self] = s3, !.gen.finishReason = {"stop"}]

\* An error case that sets the status and leaves error.type out.
onErrorEvent_noErrorType(st, event) ==
  [st EXCEPT
     !.gen.finishReason = {"error"},
     !.spans[st.self] =
        setStatus(@, "ERROR",
          {OrElse(Field(event.error, "message"), "Unknown error")})]

\* case DUST_EVENT_AGENT_ERROR, DUST_EVENT_USER_MESSAGE_ERROR
onErrorEvent(st, event) ==
  [st EXCEPT
     !.gen.finishReason = {"error"},
     !.spans[st.self] =
        setAttribute(
          setStatus(@, "ERROR",
            {OrElse(Field(event.error, "message"), "Unknown error")}),
          SEMATTRS_ERROR_TYPE, {OrElse(Field(event.error, "code"), "unknown")})]

\* switch (event.type)
onEvent(st, config, event) ==
  CASE event.type = DUST_EVENT_GENERATION_TOKENS ->
         onGenerationTokens(st, config, event)
    [] event.type = DUST_EVENT_AGENT_ACTION_SUCCESS ->
         onAgentActionSuccess(st, config, event)
    [] event.type = DUST_EVENT_AGENT_MESSAGE_SUCCESS ->
         onAgentMessageSuccess(st, event)
    [] event.type \in {DUST_EVENT_AGENT_ERROR, DUST_EVENT_USER_MESSAGE_ERROR} ->
         onErrorEvent(st, event)
    [] OTHER -> st

\* A yield inside the switch: only the events with a case are handed on.
yielded_inSwitch(event) ==
  IF event.type \in { DUST_EVENT_GENERATION_TOKENS, DUST_EVENT_AGENT_ACTION_SUCCESS,
                      DUST_EVENT_AGENT_MESSAGE_SUCCESS, DUST_EVENT_AGENT_ERROR,
                      DUST_EVENT_USER_MESSAGE_ERROR }
  THEN <<event>> ELSE <<>>

\* `yield event` after the switch: what the consumer is handed for an event.
yielded(event) == <<event>>

\* An exhaustion that ends the parent span before setting the attributes.
onExhausted_endFirst(span, g, config) ==
  LET s0 == end(span)
      s1 == IF config.captureMessageContent /\ g.outputContent # ""
            THEN setAttribute(s0, SEMATTRS_GEN_AI_OUTPUT_MESSAGES,
                   {JSONstringify(<<[role |-> "assistant",
                                     content |-> g.outputContent]>>)})
            ELSE s0
      s2 == IF g.outputTokens > 0
            THEN setAttribute(s1, SEMATTRS_GEN_AI_USAGE_OUTPUT_TOKENS,
                   {<<g.outputTokens, 4>>})
            ELSE s1
      s3 == IF g.finishReason # {}
            THEN setAttribute(s2, SEMATTRS_GEN_AI_RESPONSE_FINISH_REASONS,
                   {<<The(g.finishReason)>>})
            ELSE s2
  IN IF Len(g.retrievalDocuments) > 0
     THEN setAttribute(s3, SEMATTRS_GEN_AI_RETRIEVAL_DOCUMENTS,
            {JSONstringify(g.retrievalDocuments)})
     ELSE s3

\* After the loop: the final attributes of the parent span, then its end.
\* outputTokens is a number of quarters: the attribute is outputTokens / 4.
onExhausted(span, g, config) ==
  LET s1 == IF config.captureMessageContent /\ g.outputContent # ""
            THEN setAttribute(span, SEMATTRS_GEN_AI_OUTPUT_MESSAGES,
                   {JSONstringify(<<[role |-> "assistant",
                                     content |-> g.outputContent]>>)})
            ELSE span
      s2 == IF g.outputTokens > 0
            THEN setAttribute(s1, SEMATTRS_GEN_AI_USAGE_OUTPUT_TOKENS,
                   {<<g.outputTokens, 4>>})
            ELSE s1
      s3 == IF g.finishReason # {}
            THEN setAttribute(s2, SEMATTRS_GEN_AI_RESPONSE_FINISH_REASONS,
                   {<<The(g.finishReason)>>})
            ELSE s2
      s4 == IF Len(g.retrievalDocuments) > 0
            THEN setAttribute(s3, SEMATTRS_GEN_AI_RETRIEVAL_DOCUMENTS,
                   {JSONstringify(g.retrievalDocuments)})
            ELSE s3
  IN end(s4)

\* A catch block that ends the span without recording the error.
onStreamError_noRecord(span, error) == end(span)

\* The catch block of the generator.
onStreamError(span, error) ==
  end(setStatus(recordException(span, error), "ERROR", {error.message}))

----------------------------------------------------------------------------
(* The state *)

Ended(kind, error) == [kind |-> kind, error |-> error]

StreamOpen == [underlying |-> Ended("open", {}), consumer |-> Ended("open", {})]

NoGen ==
  [ inputTokens |-> 0, outputTokens |-> 0, outputContent |-> "",
    finishReason |-> {}, retrievalDocuments |-> <<>> ]

\* No second call: where it stands, the index in spans of its parent span,
\* its argument, the config handed to its _wrapEventStream, the locals of
\* that generator and the events its underlying stream has produced.
NoOther ==
  [ pc |-> "idle", span |-> 0, args |-> {}, config |-> {}, gen |-> NoGen,
    produced |-> <<>> ]

Init ==
  /\ moduleExports \in ModuleExports
  /\ hooksOn = FALSE
  /\ hookError = {}
  /\ wrappedMethods = {}
  /\ everPatched = FALSE
  /\ intercepted = FALSE
  /\ configAtCall = {}
  /\ baseConfig \in BaseConfigs
  /\ pc = "idle"
  /\ method = "none"
  /\ callArgs = {}
  /\ spans = <<>>
  /\ origCalls = <<>>
  /\ returned = "nothing"
  /\ underlying = NoOutcome
  /\ observed = NoOutcome
  /\ streamConfig = {}
  /\ gen = NoGen
  /\ produced = <<>>
  /\ received = <<>>
  /\ streamEnd = StreamOpen
  /\ other = NoOther

\* original.apply(this, [args]): the original either throws at once or
\* returns a promise that settles later.
SyncOutcomes ==
  { [kind |-> "promise", error |-> {}] } \cup
  { [kind |-> "throw", error |-> {e}] : e \in Errors }

\* enable(): the instrumentation base class runs the patch hook on the
\* module's exports, once until the next disable().
enable ==
  /\ pc = "idle"
  /\ ~hooksOn
  /\ hooksOn' = TRUE
  /\ wrappedMethods' = patch(moduleExports, wrappedMethods).wrapped
  /\ hookError' = patch(moduleExports, wrappedMethods).error
  /\ everPatched' = TRUE
  /\ UNCHANGED <<moduleExports, intercepted, configAtCall, other, baseConfig,
                 pc, method, callArgs, spans, origCalls, returned, underlying,
                 observed, streamConfig, gen, produced, received, streamEnd>>

\* disable(), called while the one call of the behaviour is at one of
\* `places`: the instrumentation base class runs the unpatch hook on the
\* same exports; an error of the hook reaches the caller of disable().
disableAt(places) ==
  /\ pc \in places
  /\ hooksOn
  /\ hooksOn' = FALSE
  /\ wrappedMethods' = unpatch(moduleExports, wrappedMethods).wrapped
  /\ hookError' = unpatch(moduleExports, wrappedMethods).error
  /\ UNCHANGED <<moduleExports, everPatched, intercepted, configAtCall, other,
                 baseConfig, pc, method, callArgs, spans, origCalls, returned,
                 underlying, observed, streamConfig, gen, produced, received,
                 streamEnd>>

disable == disableAt({"idle"})

\* setConfig(config): the options are replaced; _getConfig reads them anew
\* at the next call of a patched function.
setConfig(config) ==
  /\ baseConfig # config
  /\ baseConfig' = config
  /\ UNCHANGED <<hookVars, intercepted, configAtCall, other, pc, method,
                 callArgs, spans, origCalls, returned, underlying, observed,
                 streamConfig, gen, produced, received, streamEnd>>

\* A call that reaches no wrapper, on a method that is not wrapped or on an
\* object that is no DustAPI: the method itself runs, and the caller holds
\* what it returns.  There is a DustAPI to call only if the module exports
\* one.
unpatchedCall(this, name, args, sync) ==
  /\ pc = "idle"
  /\ (this = "dustAPI") => moduleExports.DustAPI # {}
  /\ dispatch(this, name, wrappedMethods) = "original"
  /\ args \in (IF name = "createConversation" THEN CreateArgs ELSE StreamArgs)
  /\ method' = name
  /\ callArgs' = {[this |-> this, args |-> args]}
  /\ origCalls' = Append(origCalls, [this |-> this, args |-> args])
  /\ IF sync.kind = "promise"
     THEN /\ pc' = "passthrough"
          /\ returned' = "original promise"
          /\ UNCHANGED <<underlying, observed>>
     ELSE /\ pc' = "threw"
          /\ returned' = "nothing"
          /\ underlying' = Threw(The(sync.error))
          /\ observed' = Threw(The(sync.error))
  /\ UNCHANGED <<hookVars, intercepted, configAtCall, other, baseConfig,
                 spans, streamConfig, gen, produced, received, streamEnd>>

\* patchedCreateConversation(args) up to its return: with the instrumentation
\* disabled the original's own return value; otherwise the span is started,
\* the original is called in the span's context and the chained promise is
\* returned, unless the original throws.
patchedCreateConversation(this, args, sync) ==
  LET config == _getConfig(baseConfig) IN
  /\ pc = "idle"
  /\ dispatch(this, "createConversation", wrappedMethods) = "patched"
  /\ intercepted' = TRUE
  /\ configAtCall' = {baseConfig}
  /\ method' = "createConversation"
  /\ callArgs' = {[this |-> this, args |-> args]}
  /\ origCalls' = Append(origCalls, [this |-> this, args |-> args])
  /\ spans' = IF config.enabled
              THEN Append(spans, createConversationSpan(config, args))
              ELSE spans
  /\ IF sync.kind = "promise"
     THEN /\ pc' = IF config.enabled THEN "pending" ELSE "passthrough"
          /\ returned' = IF config.enabled THEN "chained promise"
                         ELSE "original promise"
          /\ UNCHANGED <<underlying, observed>>
     ELSE /\ pc' = "threw"
          /\ returned' = "nothing"
          /\ underlying' = Threw(The(sync.error))
          /\ observed' = Threw(The(sync.error))
  /\ UNCHANGED <<hookVars, other, baseConfig, streamConfig, gen,
                 produced, received, streamEnd>>

\* The original createConversation resolves: the .then handler runs, and the
\* .catch handler after it if the .then handler throws (on undefined).
createConversationResolved(result) ==
  /\ pc = "pending" /\ method = "createConversation"
  /\ underlying' = Resolved(result)
  /\ IF result = {}
     THEN /\ spans' = [spans EXCEPT ![1] = catchError(@, TypeError)]
          /\ observed' = Rejected(TypeError)
     ELSE /\ spans' = [spans EXCEPT ![1] = createConversationThen(@, The(result))]
          /\ observed' = Resolved(result)
  /\ pc' = "settled"
  /\ UNCHANGED <<hookVars, intercepted, configAtCall, other, baseConfig,
                 method, callArgs, origCalls, returned, streamConfig, gen,
                 produced, received, streamEnd>>

\* The original createConversation rejects: the .catch handler runs.
createConversationRejected(error) ==
  /\ pc = "pending" /\ method = "createConversation"
  /\ underlying' = Rejected(error)
  /\ spans' = [spans EXCEPT ![1] = catchError(@, error)]
  /\ observed' = Rejected(error)
  /\ pc' = "settled"
  /\ UNCHANGED <<hookVars, intercepted, configAtCall, other, baseConfig,
                 method, callArgs, origCalls, returned, streamConfig, gen,
                 produced, received, streamEnd>>

\* The span patchedStreamAgentAnswerEvents starts.
streamSpan(args) ==
  startSpan("invoke_agent agent",
    (SEMATTRS_GEN_AI_OPERATION_NAME :> GEN_AI_OPERATION_INVOKE_AGENT) @@
    (SEMATTRS_GEN_AI_PROVIDER_NAME :> GEN_AI_PROVIDER_DUST) @@
    (SEMATTRS_GEN_AI_CONVERSATION_ID :> (The(args.conversation)).sId), 0)

\* patchedStreamAgentAnswerEvents(args) up to its return.  Reading
\* conversation.sId of an undefined conversation throws before any span is
\* started and before the original is called.
patchedStreamAgentAnswerEvents(this, args, sync) ==
  LET config == _getConfig(baseConfig) IN
  /\ pc = "idle"
  /\ dispatch(this, "streamAgentAnswerEvents", wrappedMethods) = "patched"
  /\ intercepted' = TRUE
  /\ configAtCall' = {baseConfig}
  /\ method' = "streamAgentAnswerEvents"
  /\ callArgs' = {[this |-> this, args |-> args]}
  /\ IF config.enabled /\ args.conversation = {}
     THEN /\ pc' = "threw"
          /\ returned' = "nothing"
          /\ observed' = Threw(TypeError)
          /\ UNCHANGED <<spans, origCalls, underlying>>
     ELSE /\ origCalls' = Append(origCalls, [this |-> this, args |-> args])
          /\ spans' =
               IF config.enabled
               THEN Append(spans, streamSpan(args))
               ELSE spans
          /\ IF sync.kind = "promise"
             THEN /\ pc' = IF config.enabled THEN "pending" ELSE "passthrough"
                  /\ returned' = IF config.enabled THEN "chained promise"
                                 ELSE "original promise"
                  /\ UNCHANGED <<underlying, observed>>
             ELSE /\ pc' = "threw"
                  /\ returned' = "nothing"
                  /\ underlying' = Threw(The(sync.error))
                  /\ observed' = Threw(The(sync.error))
  /\ streamConfig' = IF config.enabled THEN {config} ELSE {}
  /\ UNCHANGED <<hookVars, other, baseConfig, gen, produced,
                 received, streamEnd>>

\* The original streamAgentAnswerEvents resolves: an error result ends the
\* span; otherwise result.value.eventStream is replaced by the generator,
\* whose body has not started.  A handler that throws goes to .catch.
streamAgentAnswerEventsResolved(result) ==
  /\ pc = "pending" /\ method = "streamAgentAnswerEvents"
  /\ underlying' = Resolved(result)
  /\ IF result = {} \/ (~isErr(The(result)) /\ (The(result)).value = {})
     THEN /\ spans' = [spans EXCEPT ![1] = catchError(@, TypeError)]
          /\ observed' = Rejected(TypeError)
          /\ pc' = "settled"
     ELSE IF isErr(The(result))
     THEN /\ spans' = [spans EXCEPT ![1] = end(resultError(@, The(result)))]
          /\ observed' = Resolved(result)
          /\ pc' = "settled"
     ELSE /\ spans' = spans
          /\ observed' = Resolved({wrapResult(The(result))})
          /\ pc' = "streaming"
  /\ UNCHANGED <<hookVars, intercepted, configAtCall, other, baseConfig,
                 method, callArgs, origCalls, returned, streamConfig, gen,
                 produced, received, streamEnd>>

\* The original streamAgentAnswerEvents rejects: the .catch handler runs.
streamAgentAnswerEventsRejected(error) ==
  /\ pc = "pending" /\ method = "streamAgentAnswerEvents"
  /\ underlying' = Rejected(error)
  /\ spans' = [spans EXCEPT ![1] = catchError(@, error)]
  /\ observed' = Rejected(error)
  /\ pc' = "settled"
  /\ UNCHANGED <<hookVars, intercepted, configAtCall, other, baseConfig,
                 method, callArgs, origCalls, returned, streamConfig, gen,
                 produced, received, streamEnd>>

\* Instrumentation disabled: the caller holds the original's own promise and
\* observes its settlement as it is.
passthroughSettled(outcome) ==
  /\ pc = "passthrough"
  /\ outcome.kind = "resolved" =>
       outcome.result \in (IF method = "createConversation" THEN CreateResults
                           ELSE StreamResults)
  /\ underlying' = outcome
  /\ observed' = outcome
  /\ pc' = "settled"
  /\ UNCHANGED <<hookVars, intercepted, configAtCall, other, baseConfig,
                 method, callArgs, spans, origCalls, returned, streamConfig,
                 gen, produced, received, streamEnd>>

\* A loop body that reads the options anew for every event.
wrappedNextEvent_rereadConfig(event, active) ==
  /\ pc = "streaming"
  /\ Len(produced) < MaxEvents
  /\ LET st == onEvent(St(spans, gen, 1, active), _getConfig(baseConfig), event)
     IN /\ spans' = st.spans
        /\ gen' = st.gen
  /\ produced' = Append(produced, event)
  /\ received' = received \o yielded(event)
  /\ UNCHANGED <<hookVars, intercepted, configAtCall, other, baseConfig, pc,
                 method, callArgs, origCalls, returned, underlying, observed,
                 streamConfig, streamEnd>>

\* A loop body that yields the event first and runs its switch when the
\* consumer asks for the next element.
wrappedNextEvent_yieldFirst(event, active) ==
  /\ pc = "streaming"
  /\ Len(produced) < MaxEvents
  /\ LET st == IF produced = <<>> THEN St(spans, gen, 1, active)
               ELSE onEvent(St(spans, gen, 1, active), The(streamConfig),
                            produced[Len(produced)])
     IN /\ spans' = st.spans
        /\ gen' = st.gen
  /\ produced' = Append(produced, event)
  /\ received' = received \o yielded(event)
  /\ UNCHANGED <<hookVars, intercepted, configAtCall, other, baseConfig, pc,
                 method, callArgs, origCalls, returned, underlying, observed,
                 streamConfig, streamEnd>>

\* The consumer asks the wrapped stream for its next element and the
\* underlying stream produces an event: the switch runs, then the event is
\* yielded.
wrappedNextEvent(event, active) ==
  /\ pc = "streaming"
  /\ Len(produced) < MaxEvents
  /\ LET st == onEvent(St(spans, gen, 1, active), The(streamConfig), event) IN
       /\ spans' = st.spans
       /\ gen' = st.gen
  /\ produced' = Append(produced, event)
  /\ received' = received \o yielded(event)
  /\ UNCHANGED <<hookVars, intercepted, configAtCall, other, baseConfig, pc,
                 method, callArgs, origCalls, returned, underlying, observed,
                 streamConfig, streamEnd>>

\* ... and the underlying stream is exhausted: the final attributes are set,
\* the parent span is ended, and the wrapped stream ends.
wrappedNextDone ==
  /\ pc = "streaming"
  /\ spans' = [spans EXCEPT ![1] = onExhausted(@, gen, The(streamConfig))]
  /\ streamEnd' = [underlying |-> Ended("done", {}), consumer |-> Ended("done", {})]
  /\ pc' = "done"
  /\ UNCHANGED <<hookVars, intercepted, configAtCall, other, baseConfig,
                 method, callArgs, origCalls, returned, underlying, observed,
                 streamConfig, gen, produced, received>>

\* ... and the underlying stream raises an error: the catch block runs and
\* the error is thrown to the consumer.
wrappedNextThrows(error) ==
  /\ pc = "streaming"
  /\ spans' = [spans EXCEPT ![1] = onStreamError(@, error)]
  /\ streamEnd' = [underlying |-> Ended("threw", {error}),
                   consumer |-> Ended("threw", {error})]
  /\ pc' = "failed"
  /\ UNCHANGED <<hookVars, intercepted, configAtCall, other, baseConfig,
                 method, callArgs, origCalls, returned, underlying, observed,
                 streamConfig, gen, produced, received>>

\* The consumer leaves its `for await` loop early, or closes a stream it
\* never iterated: return() ends the generator where it is suspended.  The
\* generator has no finally block, so no statement of it runs; a started
\* loop closes the underlying stream.
wrappedReturn ==
  /\ pc = "streaming"
  /\ streamEnd' = [underlying |-> IF produced = <<>> THEN Ended("open", {})
                                  ELSE Ended("returned", {}),
                   consumer |-> Ended("returned", {})]
  /\ pc' = "abandoned"
  /\ UNCHANGED <<hookVars, intercepted, configAtCall, other, baseConfig,
                 method, callArgs, spans, origCalls, returned, underlying,
                 observed, streamConfig, gen, produced, received>>

PassthroughOutcomes ==
  { Rejected(e) : e \in Errors } \cup
  { Resolved(r) : r \in CreateResults \cup StreamResults }

Next ==
  \/ enable
  \/ disable
  \/ \E this \in Receivers, name \in Methods,
        args \in CreateArgs \cup StreamArgs, sync \in SyncOutcomes :
       unpatchedCall(this, name, args, sync)
  \/ \E this \in Receivers, args \in CreateArgs, sync \in SyncOutcomes :
       patchedCreateConversation(this, args, sync)
  \/ \E result \in CreateResults : createConversationResolved(result)
  \/ \E error \in Errors : createConversationRejected(error)
  \/ \E this \in Receivers, args \in StreamArgs, sync \in SyncOutcomes :
       patchedStreamAgentAnswerEvents(this, args, sync)
  \/ \E result \in StreamResults : streamAgentAnswerEventsResolved(result)
  \/ \E error \in Errors : streamAgentAnswerEventsRejected(error)
  \/ \E outcome \in PassthroughOutcomes : passthroughSettled(outcome)
  \/ \E event \in Events, active \in 0..Len(spans) :
       wrappedNextEvent(event, active)
  \/ wrappedNextDone
  \/ \E error \in Errors : wrappedNextThrows(error)
  \/ wrappedReturn

Spec == Init /\ [][Next]_vars

----------------------------------------------------------------------------
(* The options and the hooks changed under a running call *)

\* The events of a stream that is consumed while the options change.
ReconfigureEvents ==
  { [Event(DUST_EVENT_GENERATION_TOKENS) EXCEPT !.text = {"Hi"}],
    [Event(DUST_EVENT_AGENT_ACTION_SUCCESS) EXCEPT
       !.action = {Action({"search"}, {"call-1"}, {"act-1"},
                          {[query |-> "test"]}, {})}],
    Event(DUST_EVENT_AGENT_ERROR) }

\* One call of a patched method, with setConfig() and disable() called at
\* any moment of it: while its promise is pending and while its event
\* stream is consumed.
NextReconfigure ==
  \/ enable
  \/ disableAt({"idle", "pending", "streaming"})
  \/ \E config \in BaseConfigs : setConfig(config)
  \/ \E this \in Receivers, args \in CreateArgs, sync \in SyncOutcomes :
       patchedCreateConversation(this, args, sync)
  \/ \E result \in CreateResults : createConversationResolved(result)
  \/ \E error \in Errors : createConversationRejected(error)
  \/ \E this \in Receivers, args \in StreamArgs, sync \in SyncOutcomes :
       patchedStreamAgentAnswerEvents(this, args, sync)
  \/ \E result \in StreamResults : streamAgentAnswerEventsResolved(result)
  \/ \E error \in Errors : streamAgentAnswerEventsRejected(error)
  \/ \E outcome \in PassthroughOutcomes : passthroughSettled(outcome)
  \/ \E event \in ReconfigureEvents, active \in 0..Len(spans) :
       wrappedNextEvent(event, active)
  \/ wrappedNextDone
  \/ \E error \in Errors : wrappedNextThrows(error)
  \/ wrappedReturn

SpecReconfigure == Init /\ [][NextReconfigure]_vars

----------------------------------------------------------------------------
(* Two streams consumed interleaved *)

\* The most events the underlying stream of either call produces when two
\* streams are consumed interleaved.
MaxInterleaved == 2

\* A second patchedStreamAgentAnswerEvents(args), called for another
\* conversation while the first call is pending or its stream is consumed:
\* it reads the options, starts its own span and calls the original.
otherStreamCall(args) ==
  /\ pc \in {"pending", "streaming"} /\ method = "streamAgentAnswerEvents"
  /\ streamConfig # {}
  /\ other.pc = "idle"
  /\ args.conversation # {}
  /\ args # (The(callArgs)).args
  /\ dispatch("dustAPI", "streamAgentAnswerEvents", wrappedMethods) = "patched"
  /\ (_getConfig(baseConfig)).enabled
  /\ spans' = Append(spans, streamSpan(args))
  /\ origCalls' = Append(origCalls, [this |-> "dustAPI", args |-> args])
  /\ other' = [other EXCEPT !.pc = "pending", !.span = Len(spans) + 1,
                            !.args = {args},
                            !.config = {_getConfig(baseConfig)}]
  /\ UNCHANGED <<hookVars, intercepted, configAtCall, baseConfig, pc, method,
                 callArgs, returned, underlying, observed, streamConfig, gen,
                 produced, received, streamEnd>>

\* The original of the second call resolves with a result that carries an
\* event stream: _wrapEventStream is called with the call's span and config,
\* and the locals of the new generator start from their initial values.
otherStreamResolved(result) ==
  /\ other.pc = "pending"
  /\ result # {} /\ ~isErr(The(result)) /\ (The(result)).value # {}
  /\ other' = [other EXCEPT !.pc = "streaming", !.gen = NoGen]
  /\ UNCHANGED <<hookVars, intercepted, configAtCall, baseConfig, pc, method,
                 callArgs, spans, origCalls, returned, underlying, observed,
                 streamConfig, gen, produced, received, streamEnd>>

\* A second generator that keeps its running state where the first one does.
otherNextEvent_sharedLocals(event, active) ==
  /\ other.pc = "streaming"
  /\ Len(other.produced) < MaxInterleaved
  /\ LET st == onEvent(St(spans, gen, other.span, active),
                       The(other.config), event) IN
       /\ spans' = st.spans
       /\ gen' = st.gen
       /\ other' = [other EXCEPT !.gen = st.gen,
                                 !.produced = Append(@, event)]
  /\ UNCHANGED <<hookVars, intercepted, configAtCall, baseConfig, pc, method,
                 callArgs, origCalls, returned, underlying, observed,
                 streamConfig, produced, received, streamEnd>>

\* The consumer asks the second wrapped stream for its next element and its
\* underlying stream produces an event: the switch runs on the locals and
\* the span of the second generator.
otherNextEvent(event, active) ==
  /\ other.pc = "streaming"
  /\ Len(other.produced) < MaxInterleaved
  /\ LET st == onEvent(St(spans, other.gen, other.span, active),
                       The(other.config), event) IN
       /\ spans' = st.spans
       /\ other' = [other EXCEPT !.gen = st.gen,
                                 !.produced = Append(@, event)]
  /\ UNCHANGED <<hookVars, intercepted, configAtCall, baseConfig, pc, method,
                 callArgs, origCalls, returned, underlying, observed,
                 streamConfig, gen, produced, received, streamEnd>>

\* ... and the underlying stream of the second call is exhausted.
otherNextDone ==
  /\ other.pc = "streaming"
  /\ spans' = [spans EXCEPT ![other.span] =
                 onExhausted(@, other.gen, The(other.config))]
  /\ other' = [other EXCEPT !.pc = "done"]
  /\ UNCHANGED <<hookVars, intercepted, configAtCall, baseConfig, pc, method,
                 callArgs, origCalls, returned, underlying, observed,
                 streamConfig, gen, produced, received, streamEnd>>

\* The first stream's next event, while two streams are consumed.
firstNextEvent(event, active) ==
  /\ Len(produced) < MaxInterleaved
  /\ wrappedNextEvent(event, active)

\* The events of two streams that are consumed interleaved.
InterleavedEvents ==
  { [Event(DUST_EVENT_GENERATION_TOKENS) EXCEPT !.text = {"Hi"}],
    [Event(DUST_EVENT_AGENT_ACTION_SUCCESS) EXCEPT
       !.action = {Action({"search"}, {"call-1"}, {"act-1"},
                          {[query |-> "test"]},
                          ArrayOutput(<<Item("retrieval_documents",
                                             {<<Doc("d1")>>})>>))}],
    [Event(DUST_EVENT_AGENT_MESSAGE_SUCCESS) EXCEPT !.messageId = {"msg-1"}] }

\* The arguments of the two calls.
InterleavedArgs == { args \in StreamArgs : args.conversation # {} }

\* Two calls of the patched streamAgentAnswerEvents whose wrapped streams
\* are consumed with interleaved pulls, each pull under any active span.
NextInterleaved ==
  \/ enable
  \/ \E args \in InterleavedArgs :
       patchedStreamAgentAnswerEvents("dustAPI", args, [kind |-> "promise", error |-> {}])
  \/ \E result \in StreamResults : streamAgentAnswerEventsResolved(result)
  \/ \E event \in InterleavedEvents, active \in 0..Len(spans) :
       firstNextEvent(event, active)
  \/ wrappedNextDone
  \/ \E args \in InterleavedArgs : otherStreamCall(args)
  \/ \E result \in StreamResults : otherStreamResolved(result)
  \/ \E event \in InterleavedEvents, active \in 0..Len(spans) :
       otherNextEvent(event, active)
  \/ otherNextDone

\* The instrumentation constructed with content capture on or with no
\* options, for a module that exports DustAPI.
InitInterleaved ==
  /\ Init
  /\ moduleExports.DustAPI # {}
  /\ baseConfig \in {BaseConfig({}, {}, {}), BaseConfig({TRUE}, {TRUE}, {TRUE})}

SpecInterleaved == InitInterleaved /\ [][NextInterleaved]_vars

----------------------------------------------------------------------------
(* Vocabulary of the properties *)

\* The options as documented: enabled unless set to false, content captured
\* only if captureMessageContent is set to true.
Enabled == baseConfig.enabled # {FALSE}
CaptureContent == baseConfig.captureMessageContent = {TRUE}

\* The call entered a patched function of an enabled instrumentation.
Instrumented == intercepted /\ Enabled

IsCreate == method = "createConversation"
IsStream == method = "streamAgentAnswerEvents"

\* The wrapped stream exists: an enabled streamAgentAnswerEvents call whose
\* result carried an event stream, which its consumer has not closed.
Wrapped == IsStream /\ Enabled /\ pc \in {"streaming", "done", "failed"}

ToolSpanIndexes == IF Len(spans) > 1 THEN 2..Len(spans) ELSE {}

\* The underlying call failed: it threw, rejected, or resolved to a result
\* whose isErr() is true.
UnderlyingFailed ==
  \/ underlying.kind \in {"threw", "rejected"}
  \/ /\ underlying.kind = "resolved"
     /\ underlying.result # {}
     /\ isErr(The(underlying.result))

\* The positions of the produced events that satisfy P.
Positions(P(_)) == { i \in 1..Len(produced) : P(produced[i]) }

IsActionSuccess(event) == event.type = DUST_EVENT_AGENT_ACTION_SUCCESS
HasAction(event) == IsActionSuccess(event) /\ event.action # {}

\* The tool result of an event, in parts: the output's items and the
\* documents they hold.
ToolResultParts(event) ==
  IF HasAction(event) /\ (The(event.action)).output # {}
  THEN LET items == (The((The(event.action)).output)).items IN
       { items[i] : i \in 1..Len(items) } \cup
       UNION { { d[j] : j \in 1..Len(d) } :
               d \in UNION { items[i].documents : i \in 1..Len(items) } }
  ELSE {}

\* A span attribute that holds message text, tool arguments or tool results.
HoldsContent(span) ==
  \/ span.attrs[SEMATTRS_GEN_AI_INPUT_MESSAGES] # {}
  \/ span.attrs[SEMATTRS_GEN_AI_OUTPUT_MESSAGES] # {}
  \/ span.attrs[SEMATTRS_GEN_AI_TOOL_CALL_ARGUMENTS] # {}
  \/ span.attrs[SEMATTRS_GEN_AI_TOOL_CALL_RESULT] # {}
  \/ \E v \in span.attrs[SEMATTRS_GEN_AI_RETRIEVAL_DOCUMENTS] :
       \E i \in 1..Len(v.json), n \in 1..Len(produced) :
         v.json[i] \in ToolResultParts(produced[n])

\* The sum of the text lengths of the token events: four times the sum of
\* text.length / 4.
RECURSIVE TextLength(_)
TextLength(events) ==
  IF events = <<>> THEN 0
  ELSE (IF Head(events).type = DUST_EVENT_GENERATION_TOKENS /\ Head(events).text # {}
        THEN Len(The(Head(events).text)) ELSE 0) + TextLength(Tail(events))

\* ceil(n / 4)
CeilQuarter(n) == (n + 3) \div 4

RECURSIVE CeilTokens(_)
CeilTokens(events) ==
  IF events = <<>> THEN 0
  ELSE (IF Head(events).type = DUST_EVENT_GENERATION_TOKENS /\ Head(events).text # {}
        THEN CeilQuarter(Len(The(Head(events).text))) ELSE 0)
       + CeilTokens(Tail(events))

----------------------------------------------------------------------------
(* C1 *)

\* C1: the wrapped event stream hands the consumer exactly the events the
\* underlying stream produced, in their order, none dropped, added or
\* changed, and it ends when, and as, the underlying stream ends.
C1_StreamPreserved ==
  Wrapped =>
    /\ received = produced
    /\ streamEnd.consumer = streamEnd.underlying
    /\ (pc = "done") = (streamEnd.underlying.kind = "done")

C1_Witness ==
  /\ Wrapped /\ pc = "done"
  /\ Len(received) = 2
  /\ received[1].type = DUST_EVENT_GENERATION_TOKENS
  /\ received[1].text = {"Hello"}
  /\ HasAction(received[2])

----------------------------------------------------------------------------
(* C2 *)

\* C2: with captureMessageContent disabled no attribute of any span holds
\* message text, tool arguments or tool results.
C2_NoContentWhenCaptureDisabled ==
  ~CaptureContent =>
    \A i \in 1..Len(spans) : ~HoldsContent(spans[i])

----------------------------------------------------------------------------
(* C3 *)

\* C3: once an enabled call's underlying call has failed (an isErr() result,
\* a rejection or a throw), the span of the call has error status and has
\* been ended exactly once.
C3_FailedCallEndsSpan ==
  (Instrumented /\ UnderlyingFailed) =>
    /\ Len(spans) = 1
    /\ spans[1].status.code = "ERROR"
    /\ spans[1].endCalls = 1

----------------------------------------------------------------------------
(* C4 *)

ResultConversationId ==
  Field(Field(Field(underlying.result, "value"), "conversation"), "sId")

ResultMessageId ==
  Field(Field(Field(underlying.result, "value"), "message"), "sId")

\* C4: an enabled createConversation call produces exactly one span; when
\* the underlying call has resolved to a result that is no error the span
\* has been ended exactly once, the conversation-id attribute is set iff the
\* result carries a conversation id, and the response-id attribute iff it
\* carries a message id.
C4_CreateConversationSuccess ==
  (IsCreate /\ Instrumented) =>
    /\ Len(spans) = 1
    /\ (underlying.kind = "resolved" /\ ~UnderlyingFailed) =>
         /\ spans[1].endCalls = 1
         /\ spans[1].attrs[SEMATTRS_GEN_AI_CONVERSATION_ID] = ResultConversationId
         /\ spans[1].attrs[SEMATTRS_GEN_AI_RESPONSE_ID] = ResultMessageId

C4_Witness ==
  /\ IsCreate /\ Instrumented /\ pc = "settled"
  /\ underlying.kind = "resolved" /\ ~UnderlyingFailed
  /\ ResultConversationId = {"conv-123"}
  /\ ResultMessageId = {}
  /\ spans[1].attrs[SEMATTRS_GEN_AI_CONVERSATION_ID] = {"conv-123"}
  /\ spans[1].status.code = "UNSET"

----------------------------------------------------------------------------
(* C5 *)

\* C5: with enabled = false a call to either patched method starts no span,
\* calls the original once with the receiver and argument of the call, and
\* returns what the original returned: the caller holds the original's own
\* promise and observes its outcome as it is, the event stream of a stream
\* result being the original one.
C5_DisabledPassthrough ==
  (intercepted /\ ~Enabled) =>
    /\ spans = <<>>
    /\ Len(origCalls) = 1
    /\ {origCalls[1]} = callArgs
    /\ returned = (IF pc = "threw" THEN "nothing" ELSE "original promise")
    /\ observed = underlying

C5_Witness ==
  /\ intercepted /\ ~Enabled /\ IsStream /\ pc = "settled"
  /\ observed.kind = "resolved"
  /\ Field(observed.result, "value") = {[eventStream |-> "original"]}

----------------------------------------------------------------------------
(* C6 *)

\* C6, as stated: every agent_action_success event of the sequence has its
\* own tool span, ended before the next event is processed.
C6_OneToolSpanPerActionSuccessEvent ==
  Wrapped =>
    /\ Cardinality(ToolSpanIndexes) = Cardinality(Positions(IsActionSuccess))
    /\ \A i \in ToolSpanIndexes : spans[i].endCalls = 1

\* C6, amended: every agent_action_success event that carries an action has
\* its own tool span, a child of the stream's span, ended before the next
\* event is processed; an agent_action_success event without an action has
\* none.
C6_OneToolSpanPerAction ==
  Wrapped =>
    /\ Cardinality(ToolSpanIndexes) = Cardinality(Positions(HasAction))
    /\ \A i \in ToolSpanIndexes :
         /\ spans[i].endCalls = 1
         /\ spans[i].name = GEN_AI_OPERATION_EXECUTE_TOOL
         /\ spans[i].parent = 1

C6_Witness ==
  /\ Wrapped /\ pc = "streaming"
  /\ Len(produced) = 2
  /\ HasAction(produced[1]) /\ HasAction(produced[2])
  /\ Len(spans) = 3
  /\ spans[2].endCalls = 1 /\ spans[3].endCalls = 1

----------------------------------------------------------------------------
(* C7 *)

\* C7: an error the underlying call throws or rejects with is recorded on
\* the span, with error status, before the span ends, and the caller
\* observes that very error.
C7_ExceptionRecordedAndRethrown ==
  (Instrumented /\ underlying.kind \in {"threw", "rejected"}) =>
    /\ spans[1].exceptions = <<The(underlying.error)>>
    /\ spans[1].status = [code |-> "ERROR",
                          message |-> {(The(underlying.error)).message}]
    /\ spans[1].endCalls = 1
    /\ observed = underlying

----------------------------------------------------------------------------
(* C8 *)

\* C8: when the underlying event stream raises an error, the parent span
\* records it, has error status and is ended, the consumer is thrown the
\* same error, and the events it was handed before are exactly those the
\* underlying stream produced before.
C8_StreamErrorPropagated ==
  (Wrapped /\ streamEnd.underlying.kind = "threw") =>
    LET error == The(streamEnd.underlying.error) IN
    /\ pc = "failed"
    /\ Len(spans[1].exceptions) = 1
    /\ spans[1].exceptions[1] = error
    /\ spans[1].status = [code |-> "ERROR", message |-> {error.message}]
    /\ spans[1].endCalls = 1
    /\ streamEnd.consumer = [kind |-> "threw", error |-> {error}]
    /\ received = produced

C8_Witness ==
  /\ Wrapped /\ pc = "failed"
  /\ Len(received) = 1
  /\ received[1].type = DUST_EVENT_AGENT_ERROR
  /\ spans[1].endCalls = 1
  /\ spans[1].status.message = {"boom"}

----------------------------------------------------------------------------
(* C9 *)

\* C9: when the underlying stream is exhausted the parent span carries the
\* accumulated output content (content capture enabled), output-token count,
\* finish reason and retrieval documents, all set before its one end(); and
\* the parent span is not ended while the stream is still being consumed.
C9_FinalAttributesThenEnd ==
  Wrapped =>
    /\ (pc = "streaming") => spans[1].endCalls = 0
    /\ (pc = "done") =>
         /\ spans[1].endCalls = 1
         /\ spans[1].lateOps = 0
         /\ received = produced
         /\ spans[1].attrs[SEMATTRS_GEN_AI_OUTPUT_MESSAGES] =
              (IF CaptureContent /\ gen.outputContent # ""
               THEN {JSONstringify(<<[role |-> "assistant",
                                      content |-> gen.outputContent]>>)}
               ELSE {})
         /\ spans[1].attrs[SEMATTRS_GEN_AI_USAGE_OUTPUT_TOKENS] =
              (IF gen.outputTokens > 0 THEN {<<gen.outputTokens, 4>>} ELSE {})
         /\ spans[1].attrs[SEMATTRS_GEN_AI_RESPONSE_FINISH_REASONS] =
              (IF gen.finishReason # {} THEN {<<The(gen.finishReason)>>} ELSE {})
         /\ spans[1].attrs[SEMATTRS_GEN_AI_RETRIEVAL_DOCUMENTS] =
              (IF gen.retrievalDocuments # <<>>
               THEN {JSONstringify(gen.retrievalDocuments)} ELSE {})

C9_Witness ==
  /\ Wrapped /\ pc = "done"
  /\ Len(received) = 2
  /\ gen.outputContent = "Hello"
  /\ gen.finishReason = {"stop"}
  /\ spans[1].attrs[SEMATTRS_GEN_AI_OUTPUT_MESSAGES] # {}
  /\ spans[1].attrs[SEMATTRS_GEN_AI_RESPONSE_FINISH_REASONS] = {<<"stop">>}

----------------------------------------------------------------------------
(* C10 *)

\* C10: at exhaustion the output-token attribute of the parent span is the
\* sum over the token events of text.length / 4, the fractional accumulation
\* the code uses (the attribute is left unset when that sum is 0).
C10_OutputTokens ==
  (Wrapped /\ pc = "done") =>
    spans[1].attrs[SEMATTRS_GEN_AI_USAGE_OUTPUT_TOKENS] =
      (IF TextLength(produced) > 0 THEN {<<TextLength(produced), 4>>} ELSE {})

C10_Witness ==
  /\ Wrapped /\ pc = "done"
  /\ Len(produced) = 2
  /\ produced[1].text = {"Hi"} /\ produced[2].text = {"Hello"}
  /\ spans[1].attrs[SEMATTRS_GEN_AI_USAGE_OUTPUT_TOKENS] = {<<7, 4>>}
  /\ CeilTokens(produced) = 3

----------------------------------------------------------------------------
(* C11 *)

IsErrorEvent(event) ==
  event.type \in {DUST_EVENT_AGENT_ERROR, DUST_EVENT_USER_MESSAGE_ERROR}

LastEvent == produced[Len(produced)]

\* C11: once an agent_error or user_message_error event has been processed,
\* and until a later event is, the finish reason is "error", the parent span
\* has error status with the event's error message ("Unknown error" when the
\* event carries none) and its error.type attribute is the event's error
\* code ("unknown" when the event carries none); a stream that is exhausted
\* then reports the finish reason "error".
C11_ErrorEvent ==
  (Wrapped /\ pc \in {"streaming", "done"} /\ produced # <<>>
     /\ IsErrorEvent(LastEvent)) =>
    LET error == LastEvent.error
        message == IF error # {} /\ (The(error)).message # {}
                   THEN (The(error)).message ELSE {"Unknown error"}
        code == IF error # {} /\ (The(error)).code # {}
                THEN (The(error)).code ELSE {"unknown"}
    IN /\ gen.finishReason = {"error"}
       /\ spans[1].status = [code |-> "ERROR", message |-> message]
       /\ spans[1].attrs[SEMATTRS_ERROR_TYPE] = code
       /\ (pc = "done") =>
            spans[1].attrs[SEMATTRS_GEN_AI_RESPONSE_FINISH_REASONS] = {<<"error">>}

C11_Witness ==
  /\ Wrapped /\ pc = "done"
  /\ Len(produced) = 2
  /\ produced[1].type = DUST_EVENT_USER_MESSAGE_ERROR
  /\ produced[2].type = DUST_EVENT_AGENT_ERROR
  /\ produced[2].error # {}
  /\ spans[1].status = [code |-> "ERROR", message |-> {"Request timed out"}]
  /\ spans[1].attrs[SEMATTRS_ERROR_TYPE] = {"TIMEOUT"}
  /\ spans[1].attrs[SEMATTRS_GEN_AI_RESPONSE_FINISH_REASONS] = {<<"error">>}

----------------------------------------------------------------------------
(* C12 *)

IsMessageSuccess(event) == event.type = DUST_EVENT_AGENT_MESSAGE_SUCCESS

EventAgentId(event) == event.configurationId
EventAgentName(event) == Field(Field(event.message, "configuration"), "name")
EventAgentDescription(event) ==
  Field(Field(event.message, "configuration"), "description")
EventAgentVersion(event) == Field(Field(event.message, "configuration"), "version")

\* The value of a field in the latest message-success event that carries
\* it; undefined when none does.
LatestInSuccess(F(_)) ==
  LET carrying == { i \in Positions(IsMessageSuccess) : F(produced[i]) # {} } IN
  IF carrying = {} THEN {}
  ELSE F(produced[CHOOSE i \in carrying : \A j \in carrying : j <= i])

\* C12: once an agent_message_success event has been processed, and until a
\* later event is, the finish reason is "stop"; and the agent id, name,
\* description and version attributes of the parent span are each the value
\* of the latest message-success event that carried the field (a version of
\* 0 included), unset when no such event carried it: an event sets the
\* attributes of the fields it has and leaves the others as they are.
C12_MessageSuccess ==
  Wrapped =>
    /\ (produced # <<>> /\ IsMessageSuccess(LastEvent)) =>
         gen.finishReason = {"stop"}
    /\ spans[1].attrs[SEMATTRS_GEN_AI_AGENT_ID] = LatestInSuccess(EventAgentId)
    /\ spans[1].attrs[SEMATTRS_GEN_AI_AGENT_NAME] = LatestInSuccess(EventAgentName)
    /\ spans[1].attrs[SEMATTRS_GEN_AI_AGENT_DESCRIPTION] =
         LatestInSuccess(EventAgentDescription)
    /\ spans[1].attrs[SEMATTRS_DUST_AGENT_VERSION] =
         LatestInSuccess(EventAgentVersion)

C12_Witness ==
  /\ Wrapped /\ pc = "streaming"
  /\ Len(produced) = 2
  /\ IsMessageSuccess(produced[1]) /\ IsMessageSuccess(produced[2])
  /\ EventAgentVersion(produced[1]) = {0}
  /\ EventAgentDescription(produced[2]) = {}
  /\ EventAgentId(produced[2]) = {"agent-1"}
  /\ gen.finishReason = {"stop"}
  /\ spans[1].attrs[SEMATTRS_GEN_AI_AGENT_ID] = {"agent-1"}
  /\ spans[1].attrs[SEMATTRS_GEN_AI_AGENT_DESCRIPTION] = {"Helps"}
  /\ spans[1].attrs[SEMATTRS_DUST_AGENT_VERSION] = {0}

----------------------------------------------------------------------------
(* C13 *)

Receiver == (The(callArgs)).this

\* The caller got the original method's own behaviour: no span, the original
\* called once with the receiver and argument of the call, its own promise
\* returned and its outcome observed as it is.
AsOriginal ==
  /\ spans = <<>>
  /\ Len(origCalls) = 1
  /\ {origCalls[1]} = callArgs
  /\ returned = (IF pc = "threw" THEN "nothing" ELSE "original promise")
  /\ observed = underlying

\* C13: the patch hook wraps both methods and the unpatch hook unwraps both,
\* so they are wrapped together or not at all; a call on a DustAPI made
\* while they are wrapped enters the wrapper, and a call made after any
\* sequence of enable() and disable() that ends in disable() enters no
\* wrapper, starts no span and behaves as the original method.
C13_UnpatchRestores ==
  /\ wrappedMethods \in {{}, Methods}
  /\ (method # "none" /\ Receiver = "dustAPI") =>
       /\ intercepted = (wrappedMethods = Methods)
       /\ (wrappedMethods = {}) => AsOriginal

C13_Witness ==
  /\ everPatched /\ wrappedMethods = {}
  /\ Enabled /\ IsStream /\ Receiver = "dustAPI" /\ pc = "settled"
  /\ observed.kind = "resolved"
  /\ Field(observed.result, "value") = {[eventStream |-> "original"]}
  /\ spans = <<>>

----------------------------------------------------------------------------
(* C14 *)

DefaultConfig == baseConfig = BaseConfig({}, {}, {})

\* C14: with every option omitted the instrumentation is enabled and
\* captures no content: a call that enters a wrapper and reaches the
\* original has started its span, and no span has an input-messages,
\* output-messages, tool-arguments or tool-result attribute.
C14_Defaults ==
  (DefaultConfig /\ intercepted) =>
    /\ (origCalls # <<>>) =>
         /\ Len(spans) >= 1
         /\ spans[1].attrs[SEMATTRS_GEN_AI_OPERATION_NAME] =
              {GEN_AI_OPERATION_INVOKE_AGENT}
    /\ \A i \in 1..Len(spans) :
         /\ spans[i].attrs[SEMATTRS_GEN_AI_INPUT_MESSAGES] = {}
         /\ spans[i].attrs[SEMATTRS_GEN_AI_OUTPUT_MESSAGES] = {}
         /\ spans[i].attrs[SEMATTRS_GEN_AI_TOOL_CALL_ARGUMENTS] = {}
         /\ spans[i].attrs[SEMATTRS_GEN_AI_TOOL_CALL_RESULT] = {}

C14_Witness ==
  /\ DefaultConfig /\ Wrapped /\ pc = "done"
  /\ Len(produced) = 2
  /\ produced[1].text = {"Hello"}
  /\ HasAction(produced[2])
  /\ (The(produced[2].action)).params # {}
  /\ (The(produced[2].action)).output # {}
  /\ Len(spans) = 2
  /\ spans[1].endCalls = 1
  /\ spans[1].attrs[SEMATTRS_GEN_AI_USAGE_OUTPUT_TOKENS] = {<<5, 4>>}

----------------------------------------------------------------------------
(* C15 *)

\* C15: every span that has been ended with error status carries an
\* error.type attribute.
C15_ErrorSpansCarryErrorType ==
  \A i \in 1..Len(spans) :
    (spans[i].endCalls >= 1 /\ spans[i].status.code = "ERROR") =>
      spans[i].attrs[SEMATTRS_ERROR_TYPE] # {}

----------------------------------------------------------------------------
(* C16 *)

\* C16: with the methods of DustAPI.prototype wrapped and the
\* instrumentation enabled, a call of createConversation or
\* streamAgentAnswerEvents on a plain object that has a method of that name
\* enters no wrapper and starts no span: the object's own method runs.
C16_PlainObjectNotInstrumented ==
  (method # "none" /\ Receiver = "mockDustAPI") =>
    /\ ~intercepted
    /\ AsOriginal

C16_Witness ==
  /\ wrappedMethods = Methods /\ Enabled
  /\ IsCreate /\ Receiver = "mockDustAPI" /\ pc = "settled"
  /\ observed.kind = "resolved"
  /\ ResultConversationId = {"conv-123"}
  /\ spans = <<>>

----------------------------------------------------------------------------
(* C17 *)

CallMessage == (The(callArgs)).args.message

\* The configurationId of the first mention of the call's message.
FirstMentionId ==
  LET mentions == Field(CallMessage, "mentions") IN
  IF mentions # {} /\ The(mentions) # <<>>
  THEN Head(The(mentions)).configurationId ELSE {}

CallEmail == Field(Field(CallMessage, "context"), "email")

\* C17: the span of an enabled createConversation call is named
\* "invoke_agent <agent id>", the agent id being the configurationId of the
\* message's first mention, and "unknown" when there is no message, no
\* mention, or the first mention has no configurationId; gen_ai.agent.id
\* holds the same value; and the end-user id attribute is the email of the
\* message's context, set iff the context has one.
C17_CreateConversationSpan ==
  (IsCreate /\ Instrumented) =>
    LET agentId == IF FirstMentionId # {} THEN The(FirstMentionId) ELSE "unknown" IN
    /\ spans[1].name = "invoke_agent " \o agentId
    /\ spans[1].attrs[SEMATTRS_GEN_AI_AGENT_ID] = {agentId}
    /\ spans[1].attrs[SEMATTRS_ENDUSER_ID] = CallEmail

C17_Witness ==
  /\ IsCreate /\ Instrumented /\ pc = "pending"
  /\ FirstMentionId = {"agent-2"}
  /\ Len(The(Field(CallMessage, "mentions"))) = 2
  /\ CallEmail = {"user@example.com"}
  /\ spans[1].name = "invoke_agent agent-2"
  /\ spans[1].attrs[SEMATTRS_ENDUSER_ID] = {"user@example.com"}

----------------------------------------------------------------------------
(* C18 *)

\* C18: the span of an enabled streamAgentAnswerEvents call is named
\* "invoke_agent" and carries, from its creation, the id of the call's
\* conversation argument.
C18_StreamSpan ==
  (IsStream /\ Instrumented /\ spans # <<>>) =>
    /\ spans[1].name = "invoke_agent"
    /\ spans[1].attrs[SEMATTRS_GEN_AI_CONVERSATION_ID] =
         {(The((The(callArgs)).args.conversation)).sId}

----------------------------------------------------------------------------
(* C19 *)

\* C19: once the consumer of the event stream of an enabled
\* streamAgentAnswerEvents call is through with it (the stream was
\* consumed to its end, failed, or was closed by the consumer), the parent
\* span has been ended exactly once.
C19_ParentSpanEndedOnce ==
  (IsStream /\ Instrumented /\ pc \in {"done", "failed", "abandoned"}) =>
    spans[1].endCalls = 1

----------------------------------------------------------------------------
(* C20 *)

\* C20: end() is called at most once on every span, and no setAttribute,
\* setStatus or recordException is performed on a span after its end().
C20_EndOnceNothingAfter ==
  \A i \in 1..Len(spans) :
    /\ spans[i].endCalls <= 1
    /\ spans[i].lateOps = 0

C20_Witness ==
  /\ Wrapped /\ pc = "failed"
  /\ Len(spans) = 2 /\ Len(produced) = 2
  /\ IsErrorEvent(produced[2])
  /\ spans[1].endCalls = 1 /\ spans[2].endCalls = 1
  /\ spans[1].exceptions # <<>>
  /\ spans[1].lateOps = 0

----------------------------------------------------------------------------
(* C29 *)

\* What one item of a list output contributes: its documents when it is a
\* retrieval_documents item, itself when it is a resource item.
ItemContribution(item) ==
  IF item.type = "retrieval_documents"
  THEN (IF item.documents # {} THEN The(item.documents) ELSE <<>>)
  ELSE IF item.type = "resource" THEN <<item>> ELSE <<>>

RECURSIVE ItemsContribution(_)
ItemsContribution(items) ==
  IF items = <<>> THEN <<>>
  ELSE ItemContribution(Head(items)) \o ItemsContribution(Tail(items))

\* The output of an event's action when it is a list; the empty list
\* otherwise.
ListOutput(event) ==
  IF HasAction(event) /\ (The(event.action)).output # {}
     /\ (The((The(event.action)).output)).isArray
  THEN (The((The(event.action)).output)).items
  ELSE <<>>

RECURSIVE ExpectedDocuments(_)
ExpectedDocuments(events) ==
  IF events = <<>> THEN <<>>
  ELSE ItemsContribution(ListOutput(Head(events)))
         \o ExpectedDocuments(Tail(events))

\* C29: at exhaustion the retrieval-documents attribute of the parent span
\* is the serialised concatenation, in the order of the events and of their
\* items, of the documents of every retrieval_documents item and of every
\* resource item itself, over the tool-success events whose output is a
\* list; it is set iff that list is non-empty, and it is not set before
\* exhaustion.
C29_RetrievalDocuments ==
  Wrapped =>
    /\ (pc = "streaming") =>
         spans[1].attrs[SEMATTRS_GEN_AI_RETRIEVAL_DOCUMENTS] = {}
    /\ (pc = "done") =>
         spans[1].attrs[SEMATTRS_GEN_AI_RETRIEVAL_DOCUMENTS] =
           (IF ExpectedDocuments(produced) # <<>>
            THEN {JSONstringify(ExpectedDocuments(produced))} ELSE {})

C29_Witness ==
  /\ Wrapped /\ pc = "done"
  /\ Len(produced) = 2
  /\ ListOutput(produced[1]) =
       <<Item("resource", {}), Item("retrieval_documents", {})>>
  /\ ListOutput(produced[2]) =
       <<Item("retrieval_documents", {<<Doc("d1"), Doc("d2")>>})>>
  /\ spans[1].attrs[SEMATTRS_GEN_AI_RETRIEVAL_DOCUMENTS] =
       {JSONstringify(<<Item("resource", {}), Doc("d1"), Doc("d2")>>)}

----------------------------------------------------------------------------
(* C24 *)

\* The underlying call resolved to a result whose isErr() is true.
ErrorFlagged ==
  /\ underlying.kind = "resolved"
  /\ underlying.result # {}
  /\ isErr(The(underlying.result))

\* C24: when the underlying call of an enabled wrapped call has resolved to
\* an error-flagged result, the one span of the call has error status with
\* the result's error message ("Unknown error" without one) and error.type
\* is the result's error type ("unknown" without one); no response-id
\* attribute is set and, for createConversation, no conversation-id
\* attribute, whatever value the result carries; the span has been ended;
\* and the caller is resolved with the underlying result as it is, its
\* event stream, if any, being the original one.
C24_ErrorFlaggedResult ==
  (Instrumented /\ ErrorFlagged) =>
    LET error == (The(underlying.result)).error
        message == IF error # {} /\ (The(error)).message # {}
                   THEN (The(error)).message ELSE {"Unknown error"}
        type == IF error # {} /\ (The(error)).type # {}
                THEN (The(error)).type ELSE {"unknown"}
    IN /\ pc = "settled"
       /\ Len(spans) = 1
       /\ spans[1].status = [code |-> "ERROR", message |-> message]
       /\ spans[1].attrs[SEMATTRS_ERROR_TYPE] = type
       /\ spans[1].attrs[SEMATTRS_GEN_AI_RESPONSE_ID] = {}
       /\ IsCreate => spans[1].attrs[SEMATTRS_GEN_AI_CONVERSATION_ID] = {}
       /\ spans[1].endCalls = 1
       /\ spans[1].lateOps = 0
       /\ observed = underlying

C24_Witness ==
  /\ Instrumented /\ ErrorFlagged /\ IsCreate
  /\ ResultConversationId = {"conv-123"}
  /\ spans[1].status = [code |-> "ERROR", message |-> {"Unknown error"}]
  /\ spans[1].attrs[SEMATTRS_ERROR_TYPE] = {"unknown"}
  /\ spans[1].attrs[SEMATTRS_GEN_AI_CONVERSATION_ID] = {}
  /\ spans[1].endCalls = 1

----------------------------------------------------------------------------
(* C25 *)

\* The underlying streamAgentAnswerEvents call resolved to a result that is
\* no error and carries a value.
StreamSucceeded ==
  /\ IsStream
  /\ underlying.kind = "resolved"
  /\ underlying.result # {}
  /\ ~isErr(The(underlying.result))
  /\ (The(underlying.result)).value # {}

\* C25: the caller of an enabled streamAgentAnswerEvents call whose
\* underlying call succeeded is resolved with the underlying result, its
\* isErr method and its error as they were, its value holding the same
\* fields, of which eventStream alone is changed: it is the wrapping stream.
C25_ResultKeptButStream ==
  (Instrumented /\ StreamSucceeded) =>
    /\ observed.kind = "resolved" /\ observed.result # {}
    /\ LET r == The(underlying.result)
           o == The(observed.result)
       IN /\ o.isErr = r.isErr
          /\ o.error = r.error
          /\ o.value # {}
          /\ DOMAIN The(o.value) = DOMAIN The(r.value)
          /\ \A f \in DOMAIN The(r.value) \ {"eventStream"} :
               (The(o.value))[f] = (The(r.value))[f]
          /\ (The(r.value)).eventStream = "original"
          /\ (The(o.value)).eventStream = "wrapped"

C25_Witness ==
  /\ Instrumented /\ StreamSucceeded /\ pc = "streaming"
  /\ (The(underlying.result)).isErr = {FALSE}
  /\ (The(observed.result)).isErr = {FALSE}
  /\ Field(observed.result, "value") = {[eventStream |-> "wrapped"]}

----------------------------------------------------------------------------
(* C26 *)

\* C26: once an enabled wrapped call has returned or thrown and its promise,
\* if any, has settled, the caller has observed the outcome of the
\* underlying call: thrown or rejected with the same error iff the
\* underlying call threw or rejected, resolved with the same result
\* otherwise (the event stream of a successful stream result wrapped).
C26_OutcomeTransparent ==
  (Instrumented /\ pc \notin {"idle", "pending"}) =>
    /\ observed.kind = underlying.kind
    /\ observed.error = underlying.error
    /\ (underlying.kind = "resolved") =>
         \/ observed.result = underlying.result
         \/ /\ StreamSucceeded
            /\ observed.result # {}
            /\ (The(observed.result)).isErr = (The(underlying.result)).isErr
            /\ (The(observed.result)).error = (The(underlying.result)).error
            /\ (The(observed.result)).value = {[eventStream |-> "wrapped"]}

----------------------------------------------------------------------------
(* C23 *)

\* The side effects of a sequence of events, one event after the other.
RECURSIVE Replay(_, _, _)
Replay(st, config, events) ==
  IF events = <<>> THEN st
  ELSE Replay(onEvent(st, config, Head(events)), config, Tail(events))

\* The spans and locals of a stream call right after the wrapping stream
\* was made: the parent span as started, nothing accumulated.
StreamStarted == St(<<streamSpan((The(callArgs)).args)>>, NoGen, 1, 0)

CapturedAtCall == [captureMessageContent |-> CaptureContent]

\* C23: whenever the consumer holds the events it was handed so far and has
\* not asked for more, the spans and the running state are those that the
\* side effects of exactly these events leave, in their order: every side
\* effect of a handed event is complete (its tool span started and ended,
\* the parent's status and attributes set, the counters updated), no side
\* effect of a later event has happened, and the underlying stream has
\* been asked for no further event.
C23_EffectsBeforeYield ==
  (Wrapped /\ pc = "streaming") =>
    LET after == Replay(StreamStarted, CapturedAtCall, received) IN
    /\ spans = after.spans
    /\ gen = after.gen
    /\ produced = received

C23_Witness ==
  /\ Wrapped /\ pc = "streaming"
  /\ Len(received) = 2
  /\ HasAction(received[1])
  /\ received[2].type = DUST_EVENT_AGENT_ERROR
  /\ Len(spans) = 2
  /\ spans[2].endCalls = 1
  /\ spans[1].status.code = "ERROR"
  /\ gen.finishReason = {"error"}

----------------------------------------------------------------------------
(* C27 *)

\* C27: on module exports without DustAPI no method is ever wrapped and
\* neither hook raises an error.
C27_HooksWithoutDustAPI ==
  (moduleExports.DustAPI = {}) =>
    /\ wrappedMethods = {}
    /\ hookError = {}

----------------------------------------------------------------------------
(* C28 *)

EnabledAtCall == configAtCall # {} /\ (The(configAtCall)).enabled # {FALSE}

CaptureAtCall ==
  configAtCall # {} /\ (The(configAtCall)).captureMessageContent = {TRUE}

\* C28 (under SpecReconfigure, where setConfig() and disable() are called
\* at any moment of a call): a call that entered a patched function while
\* the instrumentation was disabled has no span, ever; and the spans and
\* running state of a stream whose call started while enabled are, while
\* it is consumed and at its exhaustion, those of a stream tagged all along
\* with the captureMessageContent of the call's start: content is on the
\* tool spans iff it was captured then, and at exhaustion the parent span
\* carries the final attributes and is ended once.
C28_ConfigReadOnce ==
  intercepted =>
    /\ ~EnabledAtCall => spans = <<>>
    /\ (EnabledAtCall /\ IsStream /\ pc \in {"streaming", "done"}) =>
         LET config == [captureMessageContent |-> CaptureAtCall]
             after == Replay(StreamStarted, config, produced)
         IN /\ \A i \in ToolSpanIndexes :
                 (spans[i].attrs[SEMATTRS_GEN_AI_TOOL_CALL_ARGUMENTS] # {})
                   = CaptureAtCall
            /\ (pc = "streaming") => (spans = after.spans /\ gen = after.gen)
            /\ (pc = "done") =>
                 /\ spans[1].endCalls = 1
                 /\ (spans[1].attrs[SEMATTRS_GEN_AI_OUTPUT_MESSAGES] # {})
                      = (CaptureAtCall /\ TextLength(produced) > 0)
                 /\ spans = [after.spans EXCEPT
                               ![1] = onExhausted(@, after.gen, config)]

C28_Witness ==
  /\ intercepted /\ EnabledAtCall /\ CaptureAtCall
  /\ baseConfig.enabled = {FALSE} /\ ~hooksOn
  /\ IsStream /\ pc = "done"
  /\ Len(produced) = 2
  /\ produced[1].text = {"Hi"}
  /\ HasAction(produced[2])
  /\ spans[2].attrs[SEMATTRS_GEN_AI_TOOL_CALL_ARGUMENTS] # {}
  /\ spans[1].attrs[SEMATTRS_GEN_AI_OUTPUT_MESSAGES] # {}
  /\ spans[1].endCalls = 1

----------------------------------------------------------------------------
(* C21 *)

\* The tool spans whose parent is the span at index p.
ToolSpansUnder(p) ==
  { i \in DOMAIN spans : /\ spans[i].name = GEN_AI_OPERATION_EXECUTE_TOOL
                         /\ spans[i].parent = p }

\* The events of a sequence that carry an action.
ActionPositions(events) == { i \in DOMAIN events : HasAction(events[i]) }

\* C21: with two wrapped streams consumed interleaved, each pull made under
\* any active span, every tool span has the parent span of one of the two
\* calls as its parent, and each call's parent span has exactly as many tool
\* spans under it as its own stream has produced events with an action.
C21_ToolSpanParent ==
  (Wrapped /\ other.span # 0) =>
    /\ \A i \in DOMAIN spans :
         spans[i].name = GEN_AI_OPERATION_EXECUTE_TOOL =>
           spans[i].parent \in {1, other.span}
    /\ Cardinality(ToolSpansUnder(1)) = Cardinality(ActionPositions(produced))
    /\ Cardinality(ToolSpansUnder(other.span)) =
         Cardinality(ActionPositions(other.produced))

\* Both streams have produced an event with an action, the second stream's
\* before the first's, and the second stream two of them.
C21_Witness ==
  /\ Wrapped /\ other.span # 0
  /\ Cardinality(ActionPositions(produced)) = 1
  /\ Cardinality(ActionPositions(other.produced)) = 2
  /\ \E i \in ToolSpansUnder(1), j \in ToolSpansUnder(other.span),
        k \in ToolSpansUnder(other.span) : j < i /\ i < k

----------------------------------------------------------------------------
(* C22 *)

\* The parent span of a call whose stream is consumed alone up to its end:
\* started for args, the events of the stream handled in their order, then
\* the final attributes set and the span ended.
AloneParentSpan(args, events) ==
  LET after == Replay(St(<<streamSpan(args)>>, NoGen, 1, 0), CapturedAtCall,
                      events)
  IN onExhausted(after.spans[1], after.gen, CapturedAtCall)

\* C22: with two wrapped streams consumed with interleaved pulls, the parent
\* span of each call, once its stream is consumed to the end, is the span of
\* a run in which that stream is consumed alone: its attributes depend on
\* the events of its own stream only.
C22_StateScopedToCall ==
  /\ (Wrapped /\ pc = "done") =>
       spans[1] = AloneParentSpan((The(callArgs)).args, produced)
  /\ other.pc = "done" =>
       spans[other.span] = AloneParentSpan(The(other.args), other.produced)

\* Both streams are consumed to the end, with pulls that alternate between
\* them, and each stream has produced events that feed the running state.
C22_Witness ==
  /\ Wrapped /\ pc = "done" /\ other.pc = "done"
  /\ Len(produced) = 2 /\ Len(other.produced) = 2
  /\ produced[1].text = {"Hi"} /\ HasAction(produced[2])
  /\ IsMessageSuccess(other.produced[1]) /\ other.produced[2].text = {"Hi"}
  /\ spans[1].attrs[SEMATTRS_GEN_AI_RETRIEVAL_DOCUMENTS] # {}
  /\ spans[other.span].attrs[SEMATTRS_GEN_AI_RETRIEVAL_DOCUMENTS] = {}
  /\ spans[other.span].attrs[SEMATTRS_GEN_AI_RESPONSE_FINISH_REASONS] # {}
  /\ spans[1].attrs[SEMATTRS_GEN_AI_RESPONSE_FINISH_REASONS] = {}

====
